---- MODULE Spec2Model ----
(***************************************************************************)
(* ApolloScope: the hierarchical Identifier of                             *)
(* apolloscope/scene_parsing/datatype/_identifier.py.                      *)
(*                                                                         *)
(* An identifier is the tree _rank_1_map : rank1 -> (rank2 -> set of       *)
(* rank3).  Python dicts are modelled as TLA+ functions whose domain is    *)
(* the key set, Python sets as TLA+ sets.  A property or method that can   *)
(* raise is modelled as a record [err, val]: err is "" when the call       *)
(* returns and the exception's name when it raises.                        *)
(***************************************************************************)
EXTENDS Integers, Sequences, FiniteSets, TLC

VARIABLES x, y, root, cache, register, scanned, heap, identifiers

vars == <<x, y, root, cache, register, scanned, heap, identifiers>>

\* Python's None, the default of every Identifier field.
NONE == 0

\* The scalars of a field are integers (one declared type per field):
\* 1..MaxRank1 for rank_1, 1..MaxRank2 for rank_2, 1..MaxRank3 for rank_3.
MaxRank1 == 1

MaxRank2 == 1

MaxRank3 == 1

\* Bound on the number of leaf triples of the identifier x.
MaxComponents == 2

Rank1Vals == {NONE} \cup (1..MaxRank1)

Rank2Vals == {NONE} \cup (1..MaxRank2)

Rank3Vals == {NONE} \cup (1..MaxRank3)

Returned(v) == [err |-> "", val |-> v]

Raised(e, dummy) == [err |-> e, val |-> dummy]

----------------------------------------------------------------------------
\* Identifier.__init__: the one-leaf tree {rank_1: {rank_2: {rank_3}}}.
Identifier(rank_1, rank_2, rank_3) == rank_1 :> (rank_2 :> {rank_3})

\* The leaf triples of a tree: every (rank1, rank2, rank3) path of the
\* Rank1Map / Rank2Map / Rank3Set nesting.
Leaves(map) ==
    { <<r1, r2, r3>> \in Rank1Vals \X Rank2Vals \X Rank3Vals :
        /\ r1 \in DOMAIN map
        /\ r2 \in DOMAIN map[r1]
        /\ r3 \in map[r1][r2] }

----------------------------------------------------------------------------
\* _merge_ranks_3 reducing with operator.xor.  For the one or two sets of a
\* binary union this is the symmetric difference.
merge_ranks_3_xor(rank_3_sets) ==
    { v \in UNION { rank_3_sets[i] : i \in DOMAIN rank_3_sets } :
        Cardinality({ i \in DOMAIN rank_3_sets : v \in rank_3_sets[i] }) % 2 = 1 }

\* Identifier._merge_ranks_3: reduce(operator.or_, rank_3_sets).
merge_ranks_3(rank_3_sets) ==
    UNION { rank_3_sets[i] : i \in DOMAIN rank_3_sets }

\* The sub-sequence [map_[key] for map_ in maps if key in map_.keys()].
Selected(maps, key) ==
    LET carrying == SelectSeq(maps, LAMBDA map_ : key \in DOMAIN map_)
    IN  [ n \in DOMAIN carrying |-> carrying[n][key] ]

\* reduce(operator.and_, (set(map_.keys()) for map_ in maps)).
CommonKeys(maps) ==
    { k \in DOMAIN maps[1] : \A i \in DOMAIN maps : k \in DOMAIN maps[i] }

\* {key: val for map_ in maps for key, val in map_.items()}: the value of a
\* key is the one of the last map that carries it.
LastValue(maps, key) ==
    LET carrying == SelectSeq(maps, LAMBDA map_ : key \in DOMAIN map_)
    IN  carrying[Len(carrying)][key]

AllKeys(maps) == UNION { DOMAIN maps[i] : i \in DOMAIN maps }

\* _merge_ranks_2 starting from the last map alone (merged =
\* dict(rank_2_maps[-1])): a rank2 key that only an earlier map carries is
\* dropped.
merge_ranks_2_last_only(rank_2_maps) ==
    LET common_keys == CommonKeys(rank_2_maps)
        last == rank_2_maps[Len(rank_2_maps)]
    IN  [ key \in DOMAIN last |->
            IF key \in common_keys
            THEN merge_ranks_3(Selected(rank_2_maps, key))
            ELSE last[key] ]

\* Identifier._merge_ranks_2.
merge_ranks_2(rank_2_maps) ==
    LET common_keys == CommonKeys(rank_2_maps)
    IN  [ key \in AllKeys(rank_2_maps) |->
            IF key \in common_keys
            THEN merge_ranks_3(Selected(rank_2_maps, key))
            ELSE LastValue(rank_2_maps, key) ]

\* Identifier._merge_ranks_1.
merge_ranks_1(rank_1_maps) ==
    LET common_keys == CommonKeys(rank_1_maps)
    IN  [ key \in AllKeys(rank_1_maps) |->
            IF key \in common_keys
            THEN merge_ranks_2(Selected(rank_1_maps, key))
            ELSE LastValue(rank_1_maps, key) ]

\* Identifier._from_components(*components).
from_components(components) == merge_ranks_1(components)

\* Identifier.__or__ (and __add__, which delegates to it).
Or(self, other) == from_components(<<self, other>>)

\* Identifier.__eq__: equality of the two _rank_1_map dicts.
Eq(self, other) == self = other

----------------------------------------------------------------------------
\* Python's sorted() over the keys of one dict or the members of one rank3
\* set.  The members are distinct; comparing None with an int raises
\* TypeError, and a list of two or more members has each member compared at
\* least once.
sorted(keys) ==
    IF Cardinality(keys) > 1 /\ NONE \in keys
    THEN Raised("TypeError", <<>>)
    ELSE Returned([ n \in 1..Cardinality(keys) |->
                      CHOOSE k \in keys :
                          Cardinality({ j \in keys : j < k }) = n - 1 ])

RECURSIVE Flatten(_)
Flatten(seqs) ==
    IF seqs = <<>> THEN <<>> ELSE Head(seqs) \o Flatten(Tail(seqs))

\* Identifier._sorted_components: the nested comprehension over
\* sorted(rank_1_map.items()), sorted(subsection_tree.items()) and
\* sorted(rank_3_set); each element is a new fundamental identifier.
sorted_components(self) ==
    LET s1 == sorted(DOMAIN self)
        s2(r1) == sorted(DOMAIN self[r1])
        s3(r1, r2) == sorted(self[r1][r2])
    IN  IF \/ s1.err # ""
           \/ \E r1 \in DOMAIN self : s2(r1).err # ""
           \/ \E r1 \in DOMAIN self : \E r2 \in DOMAIN self[r1] :
                  s3(r1, r2).err # ""
        THEN Raised("TypeError", <<>>)
        ELSE Returned(Flatten(
               [ i \in DOMAIN s1.val |->
                   Flatten(
                     [ j \in DOMAIN s2(s1.val[i]).val |->
                         [ k \in DOMAIN s3(s1.val[i], s2(s1.val[i]).val[j]).val |->
                             Identifier(s1.val[i],
                                        s2(s1.val[i]).val[j],
                                        s3(s1.val[i], s2(s1.val[i]).val[j]).val[k]) ] ]) ]))

\* Identifier.components: set(self._sorted_components).
components(self) ==
    LET sc == sorted_components(self)
    IN  IF sc.err # "" THEN Raised(sc.err, {})
        ELSE Returned({ sc.val[i] : i \in DOMAIN sc.val })

\* Identifier.is_composite: len(self.components) > 1.
is_composite(self) ==
    LET c == components(self)
    IN  IF c.err # "" THEN Raised(c.err, FALSE)
        ELSE Returned(Cardinality(c.val) > 1)

\* Identifier._rank_1: raises CompositeError when the tree has more than one
\* rank1 key, else returns list(self._rank_1_map.keys())[0].
rank_1(self) ==
    IF Cardinality(DOMAIN self) > 1
    THEN Raised("CompositeError", NONE)
    ELSE Returned(CHOOSE k \in DOMAIN self : TRUE)

\* _rank_2 looking into the first rank1 sub-tree without reading
\* self._rank_1, so that several rank1 keys go unnoticed.
rank_2_first_subtree(self) ==
    LET first == CHOOSE k \in DOMAIN self : \A j \in DOMAIN self : k <= j
        subsection_tree == self[first]
    IN  IF Cardinality(DOMAIN subsection_tree) > 1
        THEN Raised("CompositeError", NONE)
        ELSE Returned(CHOOSE k \in DOMAIN subsection_tree : TRUE)

\* Identifier._rank_2: reads self._rank_1 first, then checks the sub-tree
\* self._rank_1_map[self._rank_1].
rank_2(self) ==
    LET r1 == rank_1(self)
    IN  IF r1.err # "" THEN Raised("CompositeError", NONE)
        ELSE LET subsection_tree == self[r1.val]
             IN  IF Cardinality(DOMAIN subsection_tree) > 1
                 THEN Raised("CompositeError", NONE)
                 ELSE Returned(CHOOSE k \in DOMAIN subsection_tree : TRUE)

\* _rank_3 without the len(rank_3_set) > 1 check.
rank_3_unchecked(self) ==
    LET r1 == rank_1(self)
        r2 == rank_2(self)
    IN  IF r1.err # "" \/ r2.err # "" THEN Raised("CompositeError", NONE)
        ELSE LET rank_3_set == self[r1.val][r2.val]
             IN  Returned(CHOOSE k \in rank_3_set : \A j \in rank_3_set : k <= j)

\* Identifier._rank_3: reads self._rank_1 and self._rank_2 first, then checks
\* the set self._rank_1_map[self._rank_1][self._rank_2].
rank_3(self) ==
    LET r1 == rank_1(self)
        r2 == rank_2(self)
    IN  IF r1.err # "" \/ r2.err # "" THEN Raised("CompositeError", NONE)
        ELSE LET rank_3_set == self[r1.val][r2.val]
             IN  IF Cardinality(rank_3_set) > 1
                 THEN Raised("CompositeError", NONE)
                 ELSE Returned(CHOOSE k \in rank_3_set : TRUE)

\* Identifier.tuple: (self._rank_1, self._rank_2, self._rank_3).
tuple(self) ==
    LET r1 == rank_1(self)
        r2 == rank_2(self)
        r3 == rank_3(self)
    IN  IF r1.err # "" \/ r2.err # "" \/ r3.err # ""
        THEN Raised("CompositeError", <<NONE, NONE, NONE>>)
        ELSE Returned(<<r1.val, r2.val, r3.val>>)

\* The try block of Identifier.is_definite: the conjunction is evaluated
\* left to right and stops at the first field that is None.
definite_fields(self) ==
    LET r1 == rank_1(self)
        r2 == rank_2(self)
        r3 == rank_3(self)
    IN  IF r1.err # "" THEN Raised("CompositeError", FALSE)
        ELSE IF r1.val = NONE THEN Returned(FALSE)
        ELSE IF r2.err # "" THEN Raised("CompositeError", FALSE)
        ELSE IF r2.val = NONE THEN Returned(FALSE)
        ELSE IF r3.err # "" THEN Raised("CompositeError", FALSE)
        ELSE Returned(r3.val # NONE)

\* Identifier.is_definite: on CompositeError, all(component.is_definite for
\* component in self.components).
RECURSIVE is_definite(_)
is_definite(self) ==
    LET fields == definite_fields(self)
        c == components(self)
    IN  IF fields.err = "" THEN fields
        ELSE IF c.err # "" THEN Raised(c.err, FALSE)
        ELSE Returned(\A component \in c.val : is_definite(component).val)

\* Identifier.__le__: self.components <= other.components.
Le(self, other) ==
    LET a == components(self)
        b == components(other)
    IN  IF a.err # "" THEN Raised(a.err, FALSE)
        ELSE IF b.err # "" THEN Raised(b.err, FALSE)
        ELSE Returned(a.val \subseteq b.val)

\* Identifier.__ge__: self.components >= other.components.
Ge(self, other) ==
    LET a == components(self)
        b == components(other)
    IN  IF a.err # "" THEN Raised(a.err, FALSE)
        ELSE IF b.err # "" THEN Raised(b.err, FALSE)
        ELSE Returned(b.val \subseteq a.val)

\* Identifier.__lt__: self.components < other.components.
Lt(self, other) ==
    LET a == components(self)
        b == components(other)
    IN  IF a.err # "" THEN Raised(a.err, FALSE)
        ELSE IF b.err # "" THEN Raised(b.err, FALSE)
        ELSE Returned(a.val \subseteq b.val /\ a.val # b.val)

\* Identifier.__gt__: self.components > other.components.
Gt(self, other) ==
    LET a == components(self)
        b == components(other)
    IN  IF a.err # "" THEN Raised(a.err, FALSE)
        ELSE IF b.err # "" THEN Raised(b.err, FALSE)
        ELSE Returned(b.val \subseteq a.val /\ a.val # b.val)

\* Identifier.__str__: the slash-joined fields of a fundamental identifier,
\* else the listing of str(id_) over self._sorted_components.  The value is
\* the sequence of field triples that the text joins.
Str(self) ==
    LET t == tuple(self)
        sc == sorted_components(self)
    IN  IF t.err = "" THEN Returned(<<t.val>>)
        ELSE IF sc.err # "" THEN Raised(sc.err, <<>>)
        ELSE Returned([ i \in DOMAIN sc.val |-> tuple(sc.val[i]).val ])

----------------------------------------------------------------------------
(***************************************************************************)
(* The objects behind an identifier.  heap is the sequence of the dict and *)
(* set objects allocated so far and the reference of an object is its      *)
(* position in it; a dict object maps its keys to references, a set object *)
(* holds rank3 values.  An operation on objects gives the heap after it    *)
(* and the reference (ref) or references (refs) it returns.  Objects no    *)
(* longer referenced stay in the heap.                                     *)
(***************************************************************************)

\* At most MaxComponents identifiers are constructed from fields, and
\* MaxIdentifiers are built in all, unions included.
MaxIdentifiers == MaxComponents + 1

DictObject(items) == [kind |-> "dict", items |-> items]

SetObject(items) == [kind |-> "set", items |-> items]

\* A new object.
Allocate(h, object) == [heap |-> Append(h, object), ref |-> Len(h) + 1]

\* The items of {}.
NoItems == [ key \in {} |-> 0 ]

\* copy.deepcopy of a Rank3Set, a Rank2Map or a Rank1Map: a new object for
\* the object and for every object below it.
RECURSIVE deepcopy(_, _), deepcopy_items(_, _, _, _)
deepcopy(h, ref) ==
    IF h[ref].kind = "set" THEN Allocate(h, h[ref])
    ELSE LET copied == deepcopy_items(h, h[ref].items,
                                      DOMAIN h[ref].items, NoItems)
         IN  Allocate(copied.heap, DictObject(copied.items))

deepcopy_items(h, items, keys, done) ==
    IF keys = {} THEN [heap |-> h, items |-> done]
    ELSE LET key    == CHOOSE k \in keys : TRUE
             copied == deepcopy(h, items[key])
         IN  deepcopy_items(copied.heap, items, keys \ {key},
                            done @@ (key :> copied.ref))

RECURSIVE deepcopy_each(_, _, _)
deepcopy_each(h, refs, n) ==
    IF n = 0 THEN [heap |-> h, refs |-> <<>>]
    ELSE LET before == deepcopy_each(h, refs, n - 1)
             copied == deepcopy(before.heap, refs[n])
         IN  [heap |-> copied.heap, refs |-> Append(before.refs, copied.ref)]

\* maps = list(maps): the maps themselves, not copies.
copies_of_none(h, refs) ==
    [heap |-> h, refs |-> refs]

\* maps = [deepcopy(map_) for map_ in maps]
copies(h, refs) ==
    deepcopy_each(h, refs, Len(refs))

\* reduce(operator.or_, rank_3_sets) on set objects: the one set given, or
\* a new set object for every | applied.
RECURSIVE reduce_or(_, _, _)
reduce_or(h, refs, n) ==
    IF n = 1 THEN [heap |-> h, ref |-> refs[1]]
    ELSE LET acc == reduce_or(h, refs, n - 1)
         IN  Allocate(acc.heap,
                 SetObject(acc.heap[acc.ref].items
                               \cup acc.heap[refs[n]].items))

\* _merge_ranks_1 (rank 1), _merge_ranks_2 (rank 2) and _merge_ranks_3
\* (rank 3) on objects.  For a dict rank: the maps are deep-copied, merged
\* is a new dict holding for each key the value of the last copy carrying
\* it, and store_merged runs the loop `for key in common_keys:
\* merged[key] = <merge at the next rank>`, which writes into merged.
RECURSIVE merge_ranks(_, _, _), store_merged(_, _, _, _, _)
merge_ranks(h, refs, rank) ==
    IF rank = 3 THEN reduce_or(h, refs, Len(refs))
    ELSE LET copied == copies(h, refs)
             maps   == [ i \in DOMAIN copied.refs |->
                           copied.heap[copied.refs[i]].items ]
             merged == Allocate(copied.heap,
                           DictObject([ key \in AllKeys(maps) |->
                                          LastValue(maps, key) ]))
         IN  store_merged(merged.heap, merged.ref, maps,
                          CommonKeys(maps), rank)

store_merged(h, merged, maps, keys, rank) ==
    IF keys = {} THEN [heap |-> h, ref |-> merged]
    ELSE LET key == CHOOSE k \in keys : TRUE
             sub == merge_ranks(h, Selected(maps, key), rank + 1)
         IN  store_merged([sub.heap EXCEPT ![merged].items[key] = sub.ref],
                          merged, maps, keys \ {key}, rank)

\* Identifier.__init__ on objects: the set {rank_3}, the dict {rank_2: set}
\* and the dict {rank_1: dict}, which self._rank_1_map references.
new_identifier(h, r1, r2, r3) ==
    LET rank_3_set == Allocate(h, SetObject({r3}))
        rank_2_map == Allocate(rank_3_set.heap,
                               DictObject(r2 :> rank_3_set.ref))
    IN  Allocate(rank_2_map.heap, DictObject(r1 :> rank_2_map.ref))

\* Identifier._from_components on objects: composite_id = cls() allocates
\* the tree of Identifier(), then _rank_1_map is bound to the merged map.
from_components_objects(h, rank_1_maps) ==
    LET composite_id == new_identifier(h, NONE, NONE, NONE)
    IN  merge_ranks(composite_id.heap, rank_1_maps, 1)

\* The tree (as Identifier(...) and Or build it) that a Rank1Map object
\* holds.
TreeAt(h, ref) ==
    [ r1 \in DOMAIN h[ref].items |->
        [ r2 \in DOMAIN h[h[ref].items[r1]].items |->
            h[h[h[ref].items[r1]].items[r2]].items ] ]

\* The objects of a tree: the Rank1Map, its Rank2Maps and their Rank3Sets.
ObjectsAt(h, ref) ==
    LET rank_2_maps == { h[ref].items[r1] : r1 \in DOMAIN h[ref].items }
    IN  {ref} \cup rank_2_maps
              \cup UNION { { h[m].items[r2] : r2 \in DOMAIN h[m].items } :
                             m \in rank_2_maps }

----------------------------------------------------------------------------
(***************************************************************************)
(* The path Register of apolloscope/scene_parsing/path/register.py.        *)
(*                                                                         *)
(* A file path is modelled by the text FILE_DATED captures from it, a      *)
(* number written in a path or in the cache file by its decimal digits, a  *)
(* section / subsection / file type name by an integer that orders as the  *)
(* name does.  A pandas DataFrame is the record [index, columns, at]:      *)
(* index and columns are the row and column keys in table order (they may  *)
(* repeat), at maps <<row key, column key>> to the cell.  Rows or columns  *)
(* with the same key are copies of one row or column of the built table,   *)
(* so their cells are equal.                                               *)
(***************************************************************************)

\* The data set holds roads 1..MaxRoad, each with sections 1..MaxSection
\* and frames dated 1..MaxDate; a scanned directory holds at most MaxFiles
\* files.
MaxRoad == 2

MaxDate == 2

MaxSection == 2

MaxFiles == 2

Roads == 1..MaxRoad

Dates == 1..MaxDate

Sections == 1..MaxSection

\* A file of the data set:
\* road<road>_<section>/<subsection>/Record<record>/Camera <camera>/
\* <day>_<date>_Camera_<camera>.<file_type>
Path(road, section, date) ==
    [ matched |-> TRUE, road |-> <<0, road>>, section |-> section,
      subsection |-> 1, record |-> <<0, 0, 1>>, camera |-> <<5>>,
      date |-> <<0, date>>, file_type |-> 1 ]

\* A file FILE_DATED does not match (a pose.txt file).
PosePath ==
    [ matched |-> FALSE, road |-> <<>>, section |-> 0, subsection |-> 0,
      record |-> <<>>, camera |-> <<>>, date |-> <<>>, file_type |-> 0 ]

Files ==
    { Path(r, s, d) : r \in Roads, s \in Sections, d \in Dates }
        \cup {PosePath}

\* A cell: a path, None, or NaN.
Cell(path) == [null |-> "", path |-> path]

PyNone == [null |-> "None", path |-> PosePath]

NaN == [null |-> "NaN", path |-> PosePath]

\* pd.notnull: every value but None and NaN.
notnull(cell) == cell.null \notin {"None", "NaN"}

EmptyFrame == [index |-> <<>>, columns |-> <<>>, at |-> <<>>]

\* astype('int') on one captured text.
RECURSIVE astype_int(_)
astype_int(text) ==
    IF Len(text) = 0 THEN 0
    ELSE 10 * astype_int(SubSeq(text, 1, Len(text) - 1)) + text[Len(text)]

\* The order of tuples in a MultiIndex.
LexLess(a, b) ==
    \E i \in 1..Len(a) :
        /\ a[i] < b[i]
        /\ \A j \in 1..(i - 1) : a[j] = b[j]

\* The keys of a set in increasing order.
sort_index(keys) ==
    [ i \in 1..Cardinality(keys) |->
        CHOOSE k \in keys :
            Cardinality({ m \in keys : LexLess(m, k) }) = i - 1 ]

Range(seq) == { seq[i] : i \in DOMAIN seq }

\* The row key and the column key set_index gives a record.
IndexOf(p) ==
    << astype_int(p.road), astype_int(p.record),
       astype_int(p.camera), astype_int(p.date) >>

ColumnOf(p) == << p.section, p.subsection, p.file_type >>

\* str.extract(FILE_DATED) joined with the path, without the dropna().
extract_without_dropna(glob) ==
    glob

\* str.extract(FILE_DATED) joined with the path, then dropna(): the files
\* of root the expression matches.
extract(glob) ==
    { p \in glob : p.matched }

\* An exception with a message.
RaisedWith(e, message) == [err |-> e, val |-> EmptyFrame, msg |-> message]

\* A message that leaves the path out.
not_found_message_without_path(dir) ==
    <<"Scene Parsing path not found">>

\* f'Scene Parsing path not found: {root}': the text and the path it names.
\* A directory is known by its record, which stands for its path.
not_found_message(dir) ==
    <<"Scene Parsing path not found: ", dir>>

\* _df_from_file_system without its dropna().
df_from_file_system_keep_unmatched(dir) ==
    IF ~dir.exists
    THEN RaisedWith("FileNotFoundError", not_found_message(dir))
    ELSE
    LET records == dir.glob
        rows    == { IndexOf(p) : p \in records }
        cols    == { ColumnOf(p) : p \in records }
    IN  Returned(
          [ index   |-> sort_index(rows),
            columns |-> sort_index(cols),
            at      |-> [ k \in rows \X cols |->
                            IF \E p \in records :
                                 IndexOf(p) = k[1] /\ ColumnOf(p) = k[2]
                            THEN Cell(CHOOSE p \in records :
                                   IndexOf(p) = k[1] /\ ColumnOf(p) = k[2])
                            ELSE PyNone ] ])

\* Register._df_from_file_system
df_from_file_system(dir) ==
    IF ~dir.exists
    THEN RaisedWith("FileNotFoundError", not_found_message(dir))
    ELSE
    LET records == extract(dir.glob)
        rows    == { IndexOf(p) : p \in records }
        cols    == { ColumnOf(p) : p \in records }
        unstack == [ k \in rows \X cols |->
                       IF \E p \in records :
                            IndexOf(p) = k[1] /\ ColumnOf(p) = k[2]
                       THEN Cell(CHOOSE p \in records :
                                   IndexOf(p) = k[1] /\ ColumnOf(p) = k[2])
                       ELSE NaN ]
    IN  IF \E p, q \in records :
             p # q /\ IndexOf(p) = IndexOf(q) /\ ColumnOf(p) = ColumnOf(q)
        THEN Raised("ValueError", EmptyFrame)
        ELSE Returned(
               [ index   |-> sort_index(rows),
                 columns |-> sort_index(cols),
                 at      |-> [ k \in rows \X cols |->
                                 IF notnull(unstack[k]) THEN unstack[k]
                                 ELSE PyNone ] ])

\* The decimal digits to_csv writes for an integer.
RECURSIVE format_int(_)
format_int(n) ==
    IF n < 10 THEN <<n>> ELSE Append(format_int(n \div 10), n % 10)

\* The text of a row key in the index columns of the csv file.
format_index(key) == [ j \in DOMAIN key |-> format_int(key[j]) ]

\* An empty field of the csv file.
EmptyField == [null |-> "empty field", path |-> PosePath]

\* DataFrame.to_csv: three header rows of column names, four index columns
\* of digits, the cells as text and a null cell as an empty field.
to_csv(df) ==
    [ index   |-> [ i \in DOMAIN df.index |-> format_index(df.index[i]) ],
      columns |-> df.columns,
      at      |-> [ k \in { format_index(r) : r \in Range(df.index) }
                            \X Range(df.columns) |->
                      LET r == CHOOSE r \in Range(df.index) :
                                   format_index(r) = k[1]
                          cell == df.at[<<r, k[2]>>]
                      IN  IF notnull(cell) THEN cell ELSE EmptyField ] ]

\* The row key read_csv infers from the digits of the index columns.
infer_index(text) == [ j \in DOMAIN text |-> astype_int(text[j]) ]

\* read_csv(..., na_filter=False): an empty field stays an empty text.
read_csv_na_filter_off(csv) ==
    [ index   |-> [ i \in DOMAIN csv.index |-> infer_index(csv.index[i]) ],
      columns |-> csv.columns,
      at      |-> [ k \in { infer_index(t) : t \in Range(csv.index) }
                            \X Range(csv.columns) |->
                      LET t == CHOOSE t \in Range(csv.index) :
                                   infer_index(t) = k[1]
                      IN  csv.at[<<t, k[2]>>] ] ]

\* pd.read_csv(header=[0, 1, 2], index_col=[0, 1, 2, 3], dtype='object'):
\* cells stay text, an empty field is NaN, the index columns are inferred.
read_csv(csv) ==
    [ index   |-> [ i \in DOMAIN csv.index |-> infer_index(csv.index[i]) ],
      columns |-> csv.columns,
      at      |-> [ k \in { infer_index(t) : t \in Range(csv.index) }
                            \X Range(csv.columns) |->
                      LET t == CHOOSE t \in Range(csv.index) :
                                   infer_index(t) = k[1]
                          field == csv.at[<<t, k[2]>>]
                      IN  IF field = EmptyField THEN NaN ELSE field ] ]

\* CACHE_FILE: CACHE_DIR does not exist, the file does not exist, the file
\* is empty, or the file holds the csv text of a table.
NoCacheDir == [state |-> "no directory", csv |-> EmptyFrame]

NoCacheFile == [state |-> "no file", csv |-> EmptyFrame]

EmptyCacheFile == [state |-> "empty file", csv |-> EmptyFrame]

CacheFile(csv) == [state |-> "csv", csv |-> csv]

\* Register._df_from_cache
df_from_cache(file) ==
    IF file.state \in {"no directory", "no file"}
    THEN Raised("FileNotFoundError", EmptyFrame)
    ELSE IF file.state = "empty file"
    THEN Raised("EmptyDataError", EmptyFrame)
    ELSE Returned(read_csv(file.csv))

\* Register._df_to_cache: the file after the call, or the error of to_csv.
df_to_cache(df, file) ==
    IF file.state = "no directory"
    THEN Raised("OSError", file)
    ELSE Returned(CacheFile(to_csv(df)))

\* No directory at root.
NoRoot == [exists |-> FALSE, glob |-> {}]

\* No Register has been constructed.
Unbound == Raised("unbound", EmptyFrame)

----------------------------------------------------------------------------
\* The identifiers of path/identifier.py are NamedTuples: a Type is
\* <<section, subsection, file_type>>, a Sequence <<road, record, camera>>,
\* NONE in an unset field.  An identifier can name a section or a road the
\* data set does not hold.  SelectAll is None passed in place of one.
TypeIds == ({NONE} \cup (1..(MaxSection + 1))) \X {NONE, 1} \X {NONE, 1}

SequenceIds == ({NONE} \cup (1..(MaxRoad + 1))) \X {NONE, 1} \X {NONE, 5}

SelectAll == <<>>

\* Type.slicer and Sequence.slicer: slice(_id, _id) for every field.
slicer(id) == [ i \in DOMAIN id |-> [start |-> id[i], stop |-> id[i]] ]

\* The first depth levels of keys are in lexical order.
is_lexsorted(keys, depth) ==
    \A i \in 1..(Len(keys) - 1) :
        ~LexLess(SubSeq(keys[i + 1], 1, depth), SubSeq(keys[i], 1, depth))

\* A label is inside slice(start, stop); an end that is None is open.
in_slice(label, slice) ==
    /\ slice.start = NONE \/ slice.start <= label
    /\ slice.stop = NONE \/ label <= slice.stop

\* MultiIndex.get_locs for a tuple of slices: the positions of the keys
\* inside every slice, or UnsortedIndexError when the levels up to the last
\* slice that is not slice(None, None) are not sorted.
get_locs(keys, slices) ==
    LET true_slices == { i \in DOMAIN slices :
                           slices[i].start # NONE \/ slices[i].stop # NONE }
        last == CHOOSE i \in true_slices : \A j \in true_slices : j <= i
    IN  IF true_slices # {} /\ ~is_lexsorted(keys, last)
        THEN Raised("UnsortedIndexError", <<>>)
        ELSE Returned(
               SelectSeq([ i \in DOMAIN keys |-> i ],
                         LAMBDA i : \A l \in DOMAIN slices :
                                        in_slice(keys[i][l], slices[l])))

\* The cells of the rows and columns kept.
Cells(df, rows, cols) ==
    [ k \in Range(rows) \X Range(cols) |-> df.at[k] ]

\* dataframe.iloc[:, locs]
take_columns(df, locs) ==
    LET cols == [ i \in DOMAIN locs |-> df.columns[locs[i]] ]
    IN  [index |-> df.index, columns |-> cols, at |-> Cells(df, df.index, cols)]

\* dataframe.iloc[locs, :]
take_rows(df, locs) ==
    LET rows == [ i \in DOMAIN locs |-> df.index[locs[i]] ]
    IN  [index |-> rows, columns |-> df.columns,
         at |-> Cells(df, rows, df.columns)]

\* A call's outcome: the exception raised, the table returned, and whether
\* the table returned is the object self.dataframe.
Outcome(err, df, is_dataframe) ==
    [err |-> err, val |-> df, is_dataframe |-> is_dataframe]

\* type_slice returning a copy of the table for None.
type_slice_copy(dataframe, type_) ==
    IF type_ = SelectAll THEN Outcome("", dataframe, FALSE)
    ELSE LET locs == get_locs(dataframe.columns, slicer(type_))
         IN  IF locs.err # "" THEN Outcome(locs.err, EmptyFrame, FALSE)
             ELSE Outcome("", take_columns(dataframe, locs.val), FALSE)

\* Register.type_slice
type_slice(dataframe, type_) ==
    IF type_ = SelectAll THEN Outcome("", dataframe, TRUE)
    ELSE LET locs == get_locs(dataframe.columns, slicer(type_))
         IN  IF locs.err # "" THEN Outcome(locs.err, EmptyFrame, FALSE)
             ELSE Outcome("", take_columns(dataframe, locs.val), FALSE)

\* Register.sequence_slice
sequence_slice(dataframe, sequence) ==
    IF sequence = SelectAll THEN Outcome("", dataframe, TRUE)
    ELSE LET locs == get_locs(dataframe.index, slicer(sequence))
         IN  IF locs.err # "" THEN Outcome(locs.err, EmptyFrame, FALSE)
             ELSE Outcome("", take_rows(dataframe, locs.val), FALSE)

\* dropna(how='all'): the rows with a cell that is not null.
dropna_how_all(df) ==
    take_rows(df,
        SelectSeq([ i \in DOMAIN df.index |-> i ],
                  LAMBDA i : \E c \in Range(df.columns) :
                                 notnull(df.at[<<df.index[i], c>>])))

\* DataFrame.dropna(): the rows without a null cell.
dropna(df) ==
    take_rows(df,
        SelectSeq([ i \in DOMAIN df.index |-> i ],
                  LAMBDA i : \A c \in Range(df.columns) :
                                 notnull(df.at[<<df.index[i], c>>])))

\* The keys of a list of tables, one after the other.
RECURSIVE Chain(_, _, _)
Chain(slices, axis, n) ==
    IF n = 0 THEN <<>>
    ELSE Chain(slices, axis, n - 1) \o slices[n].val[axis]

\* The exception of the first call of a list that raised, "" if none did.
FirstError(slices) ==
    IF \A i \in DOMAIN slices : slices[i].err = "" THEN ""
    ELSE slices[CHOOSE i \in DOMAIN slices :
                   /\ slices[i].err # ""
                   /\ \A j \in 1..(i - 1) : slices[j].err = ""].err

\* Index.unique(): the keys in order of first appearance.
RECURSIVE unique(_)
unique(keys) ==
    IF Len(keys) = 0 THEN <<>>
    ELSE LET head == unique(SubSeq(keys, 1, Len(keys) - 1))
             last == keys[Len(keys)]
         IN  IF last \in Range(head) THEN head ELSE Append(head, last)

\* types() without its dropna(), as in ls_sp/register.py.
types_without_dropna(dataframe, type_ids) ==
    LET slices == [ i \in DOMAIN type_ids |->
                      type_slice(dataframe, type_ids[i]) ]
        cols   == Chain(slices, "columns", Len(slices))
    IN  IF FirstError(slices) # ""
        THEN Raised(FirstError(slices), EmptyFrame)
        ELSE IF Len(type_ids) = 0 THEN Raised("ValueError", EmptyFrame)
        ELSE Returned(
               [ index |-> dataframe.index, columns |-> cols,
                 at |-> Cells(dataframe, dataframe.index, cols) ])

\* types() keeping the first copy of a column selected more than once.
types_unique(dataframe, type_ids) ==
    LET slices == [ i \in DOMAIN type_ids |->
                      type_slice(dataframe, type_ids[i]) ]
        cols   == unique(Chain(slices, "columns", Len(slices)))
    IN  IF FirstError(slices) # ""
        THEN Raised(FirstError(slices), EmptyFrame)
        ELSE IF Len(type_ids) = 0 THEN Raised("ValueError", EmptyFrame)
        ELSE Returned(dropna(
               [ index |-> dataframe.index, columns |-> cols,
                 at |-> Cells(dataframe, dataframe.index, cols) ]))

\* Register.types: pd.concat(slices, axis=1, copy=False).dropna()
types(dataframe, type_ids) ==
    LET slices == [ i \in DOMAIN type_ids |->
                      type_slice(dataframe, type_ids[i]) ]
        cols   == Chain(slices, "columns", Len(slices))
    IN  IF FirstError(slices) # ""
        THEN Raised(FirstError(slices), EmptyFrame)
        ELSE IF Len(type_ids) = 0 THEN Raised("ValueError", EmptyFrame)
        ELSE Returned(dropna(
               [ index |-> dataframe.index, columns |-> cols,
                 at |-> Cells(dataframe, dataframe.index, cols) ]))

\* sequences() without its dropna(), as in ls_sp/register.py.
sequences_without_dropna(dataframe, sequence_ids) ==
    LET slices == [ i \in DOMAIN sequence_ids |->
                      sequence_slice(dataframe, sequence_ids[i]) ]
        rows   == Chain(slices, "index", Len(slices))
    IN  IF FirstError(slices) # ""
        THEN Raised(FirstError(slices), EmptyFrame)
        ELSE IF Len(sequence_ids) = 0 THEN Raised("ValueError", EmptyFrame)
        ELSE Returned(
               [ index |-> rows, columns |-> dataframe.columns,
                 at |-> Cells(dataframe, rows, dataframe.columns) ])

\* Register.sequences: pd.concat(slices, axis=0, copy=False).dropna()
sequences(dataframe, sequence_ids) ==
    LET slices == [ i \in DOMAIN sequence_ids |->
                      sequence_slice(dataframe, sequence_ids[i]) ]
        rows   == Chain(slices, "index", Len(slices))
    IN  IF FirstError(slices) # ""
        THEN Raised(FirstError(slices), EmptyFrame)
        ELSE IF Len(sequence_ids) = 0 THEN Raised("ValueError", EmptyFrame)
        ELSE Returned(dropna(
               [ index |-> rows, columns |-> dataframe.columns,
                 at |-> Cells(dataframe, rows, dataframe.columns) ]))

\* type_list without unique().
type_list_repeating(dataframe) ==
    dataframe.columns

\* Register.type_list
type_list(dataframe) ==
    unique(dataframe.columns)

\* Register.sequence_list
sequence_list(dataframe) ==
    unique([ i \in DOMAIN dataframe.index |->
               SubSeq(dataframe.index[i], 1, 3) ])

\* Register.dates
dates(dataframe) ==
    [ i \in DOMAIN dataframe.index |-> dataframe.index[i][4] ]

\* at_time returning the first row of the date only.
at_time_first_row(dataframe, timestamp) ==
    IF timestamp \notin Range(dates(dataframe))
    THEN Outcome("KeyError", EmptyFrame, FALSE)
    ELSE Outcome("",
           take_rows(dataframe,
               << CHOOSE i \in DOMAIN dataframe.index :
                      /\ dataframe.index[i][4] = timestamp
                      /\ \A j \in 1..(i - 1) :
                             dataframe.index[j][4] # timestamp >>),
           FALSE)

\* Register.at_time: the rows of the date, KeyError when no row has it.
at_time(dataframe, timestamp) ==
    IF timestamp \notin Range(dates(dataframe))
    THEN Outcome("KeyError", EmptyFrame, FALSE)
    ELSE Outcome("",
           take_rows(dataframe,
               SelectSeq([ i \in DOMAIN dataframe.index |-> i ],
                         LAMBDA i : dataframe.index[i][4] = timestamp)),
           FALSE)

----------------------------------------------------------------------------
(***************************************************************************)
(* The scanners of apolloscope/ls_sp/scan.py.                              *)
(*                                                                         *)
(* A scanned path is modelled by the parts the expressions look at: the    *)
(* layout of its first folder (road<road>_<section> in the scene parsing   *)
(* data set, <section>_road<road> in the lane segmentation data set) and   *)
(* its file name (a dated frame, pose.txt, or another name).  The table    *)
(* returned is the sequence of its rows in index order; a row holds the    *)
(* position of the path in the globbed series, the captured labels (NaN    *)
(* when the expression did not match), the path and the data set tag.      *)
(***************************************************************************)

ScanPath(layout, name, road) ==
    [layout |-> layout, name |-> name, road |-> road]

ScanFiles ==
    { ScanPath(l, n, r) :
        l \in {"road_section", "section_road"},
        n \in {"dated", "pose", "other"},
        r \in Roads }

\* SP_DATED_FILE_REGEX, SP_POSE_FILE_REGEX, LS_FILE_REGEX: the paths each
\* expression matches.
SP_DATED_FILE_REGEX ==
    { p \in ScanFiles : p.layout = "road_section" /\ p.name = "dated" }

SP_POSE_FILE_REGEX ==
    { p \in ScanFiles : p.layout = "road_section" /\ p.name = "pose" }

LS_FILE_REGEX ==
    { p \in ScanFiles : p.layout = "section_road" /\ p.name = "dated" }

\* pd.Series(map(str, path.glob('**/*.*')), name='path'): the globbed paths
\* in the order glob yields them, indexed from 1.
RECURSIVE Series(_)
Series(glob) ==
    IF glob = {} THEN <<>>
    ELSE LET p == CHOOSE p \in glob : TRUE
         IN  <<p>> \o Series(glob \ {p})

\* The groups an expression captures from a path it matches.
Captured(p) == [null |-> "", road |-> p.road]

\* Series.str.extract(regex): one row of labels per path, NaN where the
\* expression does not match.
str_extract(series, regex) ==
    [ i \in DOMAIN series |->
        [ index |-> i,
          labels |-> IF series[i] \in regex THEN Captured(series[i])
                     ELSE NaN ] ]

\* DataFrame.dropna() on the extracted labels.
extracted_dropna(frame) == SelectSeq(frame, LAMBDA row : row.labels # NaN)

\* pd.concat([dataframe, file_paths_series], axis=1, join='inner') and the
\* 'dataset' column: the rows whose index is in both, with their path.
concat_inner(frame, series, dataset) ==
    [ i \in DOMAIN frame |->
        [ index |-> frame[i].index, labels |-> frame[i].labels,
          path |-> series[frame[i].index], dataset |-> dataset ] ]

\* What a scanner returns: None or a table.
ScanNone == [none |-> TRUE, rows |-> <<>>]

ScanFrame(rows) == [none |-> FALSE, rows |-> rows]

\* scene_parsing without its dropna().
scene_parsing_keep_unmatched(path) ==
    IF ~path.exists THEN ScanNone
    ELSE LET file_paths_series == Series(path.glob)
         IN  ScanFrame(concat_inner(
                 str_extract(file_paths_series, SP_DATED_FILE_REGEX),
                 file_paths_series, "SP"))

\* scan.scene_parsing
scene_parsing(path) ==
    IF ~path.exists THEN ScanNone
    ELSE LET file_paths_series == Series(path.glob)
         IN  ScanFrame(concat_inner(
                 extracted_dropna(
                     str_extract(file_paths_series, SP_DATED_FILE_REGEX)),
                 file_paths_series, "SP"))

\* scan.lane_segmentation
lane_segmentation(path) ==
    IF ~path.exists THEN ScanNone
    ELSE LET file_paths_series == Series(path.glob)
         IN  ScanFrame(concat_inner(
                 str_extract(file_paths_series, LS_FILE_REGEX),
                 file_paths_series, "LS"))

\* No scanner has been called.
NotScanned == [none |-> TRUE, rows |-> <<>>, scanner |-> ""]

----------------------------------------------------------------------------
\* x is the identifier being composed, y the operand built last.
Init ==
    /\ x = Identifier(NONE, NONE, NONE)
    /\ y = Identifier(NONE, NONE, NONE)
    /\ root = NoRoot
    /\ cache = NoCacheDir
    /\ register = Unbound
    /\ scanned = NotScanned
    /\ heap = <<>>
    /\ identifiers = <<>>

WithinBound(map) == Cardinality(Leaves(map)) <= MaxComponents

\* x = Identifier(rank_1, rank_2, rank_3)
ConstructX ==
    \E r1 \in Rank1Vals, r2 \in Rank2Vals, r3 \in Rank3Vals :
        /\ x' = Identifier(r1, r2, r3)
        /\ UNCHANGED <<y, root, cache, register, scanned, heap, identifiers>>

\* y = Identifier(rank_1, rank_2, rank_3)
ConstructY ==
    \E r1 \in Rank1Vals, r2 \in Rank2Vals, r3 \in Rank3Vals :
        /\ y' = Identifier(r1, r2, r3)
        /\ UNCHANGED <<x, root, cache, register, scanned, heap, identifiers>>

\* x = a | b, for a and b among x and y.
Union ==
    \E a \in {x, y}, b \in {x, y} :
        /\ WithinBound(Or(a, b))
        /\ x' = Or(a, b)
        /\ UNCHANGED <<y, root, cache, register, scanned, heap, identifiers>>

Next == ConstructX \/ ConstructY \/ Union

Spec == Init /\ [][Next]_vars

TypeOK ==
    /\ Leaves(x) # {}
    /\ WithinBound(x)
    /\ Cardinality(Leaves(y)) = 1

----------------------------------------------------------------------------
\* The Register: root is the scanned directory, cache the cache file,
\* register the outcome of the last Register(root=..., use_cache_index=...).

\* The sets of at most n of the given files.
RECURSIVE UpTo(_, _)
UpTo(files, n) ==
    IF n = 0 THEN {{}}
    ELSE UpTo(files, n - 1)
           \cup { g \cup {f} : g \in UpTo(files, n - 1), f \in files }

\* The directories a scan can meet: none, or one holding up to MaxFiles
\* files of which at least one is a frame of the data set.
Roots ==
    {NoRoot} \cup
    { [exists |-> TRUE, glob |-> g] :
        g \in { f \in UpTo(Files, MaxFiles) : extract(f) # {} } }

\* Any directory or none is scanned; CACHE_DIR does not exist, holds no
\* file, or holds an empty file.
InitRegister ==
    /\ x = Identifier(NONE, NONE, NONE)
    /\ y = Identifier(NONE, NONE, NONE)
    /\ root \in Roots
    /\ cache \in {NoCacheDir, NoCacheFile, EmptyCacheFile}
    /\ register = Unbound
    /\ scanned = NotScanned
    /\ heap = <<>>
    /\ identifiers = <<>>

\* Register.__init__ without the cache branch: always scans and saves.
init_always_scan(dir, file, use_cache_index) ==
    LET built == df_from_file_system(dir)
        saved == df_to_cache(built.val, file)
    IN  IF built.err # ""
        THEN [register |-> built, cache |-> file,
              calls |-> <<"_df_from_file_system">>]
        ELSE IF saved.err # ""
        THEN [register |-> Raised(saved.err, EmptyFrame), cache |-> file,
              calls |-> <<"_df_from_file_system", "_df_to_cache">>]
        ELSE [register |-> built, cache |-> saved.val,
              calls |-> <<"_df_from_file_system", "_df_to_cache">>]

\* Register.__init__: the instance bound, or the exception raised, the
\* cache file after the call, and the methods called, in order.
init(dir, file, use_cache_index) ==
    LET cached == df_from_cache(file)
        built  == df_from_file_system(dir)
        saved  == df_to_cache(built.val, file)
        tried  == IF use_cache_index THEN <<"_df_from_cache">> ELSE <<>>
    IN  IF use_cache_index /\ cached.err = ""
        THEN [register |-> cached, cache |-> file, calls |-> tried]
        ELSE IF use_cache_index /\ cached.err # "FileNotFoundError"
        THEN [register |-> cached, cache |-> file, calls |-> tried]
        ELSE IF built.err # ""
        THEN [register |-> built, cache |-> file,
              calls |-> tried \o <<"_df_from_file_system">>]
        ELSE IF saved.err # ""
        THEN [register |-> Raised(saved.err, EmptyFrame), cache |-> file,
              calls |-> tried \o <<"_df_from_file_system", "_df_to_cache">>]
        ELSE [register |-> built, cache |-> saved.val,
              calls |-> tried \o <<"_df_from_file_system", "_df_to_cache">>]

\* register = Register(root=root, use_cache_index=use_cache_index)
New ==
    \E use_cache_index \in BOOLEAN :
        /\ register' = init(root, cache, use_cache_index).register
        /\ cache' = init(root, cache, use_cache_index).cache
        /\ UNCHANGED <<x, y, root, scanned, heap, identifiers>>

NextRegister == New

SpecRegister == InitRegister /\ [][NextRegister]_vars

\* A cache file left by an earlier run on another directory: the csv text
\* of a table with empty cells.
StaleCache ==
    CacheFile(to_csv(df_from_file_system(
        [ exists |-> TRUE,
          glob |-> {Path(1, 1, 1), Path(MaxRoad, MaxSection, MaxDate)} ]).val))

\* Any directory or none is scanned; CACHE_DIR does not exist, holds no
\* file, or holds the file of an earlier run.
InitCache ==
    /\ x = Identifier(NONE, NONE, NONE)
    /\ y = Identifier(NONE, NONE, NONE)
    /\ root \in Roots
    /\ cache \in {NoCacheDir, NoCacheFile, StaleCache}
    /\ register = Unbound
    /\ scanned = NotScanned
    /\ heap = <<>>
    /\ identifiers = <<>>

SpecCache == InitCache /\ [][NextRegister]_vars

\* Any directory or none is scanned; CACHE_DIR does not exist or holds no
\* file.
InitFilters ==
    /\ x = Identifier(NONE, NONE, NONE)
    /\ y = Identifier(NONE, NONE, NONE)
    /\ root \in Roots
    /\ cache \in {NoCacheDir, NoCacheFile}
    /\ register = Unbound
    /\ scanned = NotScanned
    /\ heap = <<>>
    /\ identifiers = <<>>

SpecFilters == InitFilters /\ [][NextRegister]_vars

----------------------------------------------------------------------------
\* The scanners: root is the path scanned, scanned what the last scanner
\* called returned.

\* The paths a scanner can be given: one that does not exist, or a
\* directory holding one to MaxFiles files.
ScanRoots ==
    {NoRoot} \cup
    { [exists |-> TRUE, glob |-> g] : g \in UpTo(ScanFiles, MaxFiles) \ {{}} }

InitScan ==
    /\ x = Identifier(NONE, NONE, NONE)
    /\ y = Identifier(NONE, NONE, NONE)
    /\ root \in ScanRoots
    /\ cache = NoCacheDir
    /\ register = Unbound
    /\ scanned = NotScanned
    /\ heap = <<>>
    /\ identifiers = <<>>

\* What a call leaves in scanned: the scanner's name and what it returned.
Called(scanner, result) ==
    [none |-> result.none, rows |-> result.rows, scanner |-> scanner]

\* scanned = scan.scene_parsing(path), path being None or root
SceneParsing ==
    \E path_is_none \in BOOLEAN :
        /\ scanned' = Called("scene_parsing",
                             IF path_is_none THEN ScanNone
                             ELSE scene_parsing(root))
        /\ UNCHANGED <<x, y, root, cache, register, heap, identifiers>>

\* scanned = scan.lane_segmentation(path), path being None or root
LaneSegmentation ==
    \E path_is_none \in BOOLEAN :
        /\ scanned' = Called("lane_segmentation",
                             IF path_is_none THEN ScanNone
                             ELSE lane_segmentation(root))
        /\ UNCHANGED <<x, y, root, cache, register, heap, identifiers>>

NextScan == SceneParsing \/ LaneSegmentation

SpecScan == InitScan /\ [][NextScan]_vars

----------------------------------------------------------------------------
\* The Identifier instances: identifiers lists those built so far, each
\* with the reference its _rank_1_map holds, the tree it had when it was
\* built and whether a union built it.

InitObjects == Init

Built(made, is_union) ==
    [ rank_1_map |-> made.ref, built |-> TreeAt(made.heap, made.ref),
      is_union |-> is_union ]

\* Identifier(rank_1, rank_2, rank_3)
NewIdentifier ==
    \E r1 \in Rank1Vals, r2 \in Rank2Vals, r3 \in Rank3Vals :
        LET made == new_identifier(heap, r1, r2, r3)
        IN  /\ Len(identifiers) < MaxIdentifiers
            /\ Len(SelectSeq(identifiers, LAMBDA id : ~id.is_union))
                   < MaxComponents
            /\ heap' = made.heap
            /\ identifiers' = Append(identifiers, Built(made, FALSE))
            /\ UNCHANGED <<x, y, root, cache, register, scanned>>

\* a | b, for two identifiers built before
OrIdentifiers ==
    \E a \in DOMAIN identifiers, b \in DOMAIN identifiers :
        LET made == from_components_objects(heap,
                        << identifiers[a].rank_1_map,
                           identifiers[b].rank_1_map >>)
        IN  /\ Len(identifiers) < MaxIdentifiers
            /\ heap' = made.heap
            /\ identifiers' = Append(identifiers, Built(made, TRUE))
            /\ UNCHANGED <<x, y, root, cache, register, scanned>>

NextObjects == NewIdentifier \/ OrIdentifiers

SpecObjects == InitObjects /\ [][NextObjects]_vars

----------------------------------------------------------------------------
(***************************************************************************)
(* Properties of the identifier algebra.                                   *)
(***************************************************************************)

\* Every Identifier(rank_1, rank_2, rank_3).
Fundamentals ==
    { Identifier(r1, r2, r3) :
        r1 \in Rank1Vals, r2 \in Rank2Vals, r3 \in Rank3Vals }

\* The identifiers at hand in a state: the two built so far and their union.
Pool == {x, y, Or(x, y)}

\* The distinct values that the leaves of a tree carry at rank k.
ValuesAt(map, k) == { l[k] : l \in Leaves(map) }

\* C1: for all identifiers A and B, A | B == B | A, and (A | B).components
\* is A.components united with B.components.
C1_UnionCommutesAndUnitesComponents ==
    \A A \in {x, y}, B \in {x, y} :
        /\ Eq(Or(A, B), Or(B, A))
        /\ components(Or(A, B)) =
               Returned(components(A).val \cup components(B).val)

\* The third operands of the associativity check: the fundamental identifiers
\* over None and one value at each rank.  The merge treats the values of a
\* rank alike, and x and y range over every value, so every pattern of equal
\* and distinct keys among three operands occurs with one of these.
ThirdOperands ==
    { Identifier(r1, r2, r3) :
        r1 \in {NONE, 1}, r2 \in {NONE, 1}, r3 \in {NONE, 1} }

\* C2: union is associative: (A | B) | C == A | (B | C), for x, y and a third
\* fundamental operand C with x in the first, the middle and the last
\* position, and for the composites x | y and y | x as operands.
C2_UnionAssociative ==
    LET xy == Or(x, y)
        yx == Or(y, x)
    IN  /\ \A C \in ThirdOperands :
               LET yC == Or(y, C)
               IN  /\ Eq(Or(xy, C), Or(x, yC))
                   /\ Eq(Or(yx, C), Or(y, Or(x, C)))
                   /\ Eq(Or(yC, x), Or(y, Or(C, x)))
        /\ \A A \in {x, xy}, B \in {x, yx} :
               Eq(Or(Or(A, B), y), Or(A, Or(B, y)))

\* A composite x that shares its single rank1 key with y, y adding a leaf.
C2_Witness ==
    /\ Cardinality(Leaves(x)) = 2
    /\ DOMAIN x = DOMAIN y
    /\ Cardinality(Leaves(Or(x, y))) = 3

\* C3: union is idempotent: A | A == A for fundamental and composite A.
C3_UnionIdempotent ==
    \A A \in Pool : Eq(Or(A, A), A)

\* x is a composite whose two leaves differ at rank3 only.
C3_Witness ==
    /\ Cardinality(Leaves(x)) = 2
    /\ Cardinality(ValuesAt(x, 1)) = 1
    /\ Cardinality(ValuesAt(x, 2)) = 1

\* C4: a constructed identifier has exactly one component and is not
\* composite, and is_composite is true exactly for the identifiers with more
\* than one component.
C4_IsCompositeCountsComponents ==
    /\ \A A \in {x, y} :
           Cardinality(Leaves(A)) = 1 =>
               /\ components(A) = Returned({A})
               /\ is_composite(A) = Returned(FALSE)
    /\ \A C \in Pool :
           is_composite(C) = Returned(Cardinality(Leaves(C)) > 1)

\* C5: rank1, rank2, rank3 and tuple all fail with CompositeError on a
\* composite identifier and all succeed on a fundamental one.
C5_AccessorsFailOnEveryComposite ==
    \A A \in Pool :
        IF Cardinality(Leaves(A)) > 1
        THEN /\ rank_1(A).err = "CompositeError"
             /\ rank_2(A).err = "CompositeError"
             /\ rank_3(A).err = "CompositeError"
             /\ tuple(A).err = "CompositeError"
        ELSE /\ rank_1(A).err = ""
             /\ rank_2(A).err = ""
             /\ rank_3(A).err = ""
             /\ tuple(A).err = ""

\* C5 as amended: rank3 and tuple fail with CompositeError on every
\* composite; rank1 and rank2 on a composite either fail with CompositeError
\* or return the value that all components share at that rank; on a
\* fundamental identifier all four succeed and return its fields.
C5_Rank3AndTupleFailOnEveryComposite ==
    \A A \in Pool :
        IF Cardinality(Leaves(A)) > 1
        THEN /\ rank_3(A).err = "CompositeError"
             /\ tuple(A).err = "CompositeError"
             /\ rank_1(A).err \in {"", "CompositeError"}
             /\ rank_2(A).err \in {"", "CompositeError"}
             /\ rank_1(A).err = "" => ValuesAt(A, 1) = {rank_1(A).val}
             /\ rank_2(A).err = "" => ValuesAt(A, 2) = {rank_2(A).val}
        ELSE /\ rank_1(A).err = ""
             /\ rank_2(A).err = ""
             /\ rank_3(A).err = ""
             /\ tuple(A) = Returned(<<rank_1(A).val, rank_2(A).val, rank_3(A).val>>)
             /\ Leaves(A) = {tuple(A).val}

\* x is a composite with a single rank1 and rank2 value: rank1 and rank2
\* are readable, rank3 and tuple are not.
C5_Witness ==
    /\ Cardinality(Leaves(x)) = 2
    /\ rank_1(x).err = ""
    /\ rank_2(x).err = ""
    /\ rank_3(x).err = "CompositeError"

\* C6: each accessor fails with CompositeError exactly when the components
\* carry more than one distinct value at that rank, and otherwise returns
\* the sole value at that rank.
C6_AccessorFailsIffManyValuesAtItsRank ==
    \A A \in Pool :
        /\ rank_1(A) = IF Cardinality(ValuesAt(A, 1)) > 1
                       THEN Raised("CompositeError", NONE)
                       ELSE Returned(CHOOSE v \in ValuesAt(A, 1) : TRUE)
        /\ rank_2(A) = IF Cardinality(ValuesAt(A, 2)) > 1
                       THEN Raised("CompositeError", NONE)
                       ELSE Returned(CHOOSE v \in ValuesAt(A, 2) : TRUE)
        /\ rank_3(A) = IF Cardinality(ValuesAt(A, 3)) > 1
                       THEN Raised("CompositeError", NONE)
                       ELSE Returned(CHOOSE v \in ValuesAt(A, 3) : TRUE)

\* C6 as amended: the accessor of rank k fails with CompositeError exactly
\* when the components carry more than one distinct value at rank k or at a
\* rank above it (rank1 for rank2; rank1 or rank2 for rank3), and otherwise
\* returns the sole value at rank k.
C6_AccessorFailsIffManyValuesUpToItsRank ==
    \A A \in Pool :
        LET many(k) == Cardinality(ValuesAt(A, k)) > 1
            sole(k) == CHOOSE v \in ValuesAt(A, k) : TRUE
        IN  /\ rank_1(A) = IF many(1)
                           THEN Raised("CompositeError", NONE)
                           ELSE Returned(sole(1))
            /\ rank_2(A) = IF many(1) \/ many(2)
                           THEN Raised("CompositeError", NONE)
                           ELSE Returned(sole(2))
            /\ rank_3(A) = IF many(1) \/ many(2) \/ many(3)
                           THEN Raised("CompositeError", NONE)
                           ELSE Returned(sole(3))

\* x is a composite of two leaves that differ at rank1 only, the shape of
\* (1,2,3) | (11,2,3): the rank2 of both leaves is the same scalar.
C6_Witness ==
    /\ Cardinality(Leaves(x)) = 2
    /\ Cardinality(ValuesAt(x, 1)) = 2
    /\ Cardinality(ValuesAt(x, 2)) = 1
    /\ NONE \notin ValuesAt(x, 2)
    /\ Cardinality(ValuesAt(x, 3)) = 1
    /\ rank_2(x).err = "CompositeError"

\* C7: A <= B iff components(A) is a subset of components(B), and A == B iff
\* A <= B and B <= A.
C7_LeIsSubsetAndEqIsMutualLe ==
    \A A \in Pool, B \in Pool :
        /\ Le(A, B) = Returned(Leaves(A) \subseteq Leaves(B))
        /\ Le(B, A).err = ""
        /\ Eq(A, B) <=> (Le(A, B).val /\ Le(B, A).val)

\* C8: the sorted component listing is produced for every identifier, and so
\* are components, is_composite, the ordering operators and the rendering.
C8_ComponentsNeverRaises ==
    \A A \in Pool :
        /\ sorted_components(A).err = ""
        /\ components(A).err = ""
        /\ is_composite(A).err = ""
        /\ Le(A, x).err = ""
        /\ Ge(A, x).err = ""
        /\ Lt(A, x).err = ""
        /\ Gt(A, x).err = ""
        /\ Str(A).err = ""

\* C9: is_definite(I) returns true iff no field of any component of I is
\* unset, and returns (false) rather than failing otherwise.
C9_IsDefiniteIffNoUnsetField ==
    \A I \in Pool :
        is_definite(I) =
            Returned(\A l \in Leaves(I) :
                         l[1] # NONE /\ l[2] # NONE /\ l[3] # NONE)

\* A and B are fundamental and differ in exactly one field, which is unset
\* in A and a scalar in B.
DifferByOneUnset(A, B) ==
    /\ Cardinality(Leaves(A)) = 1
    /\ Cardinality(Leaves(B)) = 1
    /\ \E k \in 1..3 :
           /\ tuple(A).val[k] = NONE
           /\ tuple(B).val[k] # NONE
           /\ \A j \in (1..3) \ {k} : tuple(A).val[j] = tuple(B).val[j]

\* C10: two fundamental identifiers that differ only in one field being
\* unset in one and a scalar in the other are not <= either way, are not
\* equal, and their union is a composite with exactly two components.
C10_UnsetIsLiteral ==
    \A A \in {x, y}, B \in {x, y} :
        DifferByOneUnset(A, B) =>
            /\ Le(A, B) = Returned(FALSE)
            /\ Le(B, A) = Returned(FALSE)
            /\ ~Eq(A, B)
            /\ is_composite(Or(A, B)) = Returned(TRUE)
            /\ components(Or(A, B)) = Returned({A, B})
----------------------------------------------------------------------------
(***************************************************************************)
(* Properties of the Register.                                             *)
(***************************************************************************)

\* The row keys and the column keys the data set can give a table.
RowKeys == Roads \X {1} \X {5} \X Dates

ColumnKeys == Sections \X {1} \X {1}

\* C11: the table built from a scan has one row per (road, record, camera,
\* date) and one column per (section, subsection, file_type) of the files
\* FILE_DATED matches, the row keys are integers, the cell of a file's keys
\* is the file's path and every other cell is null.
C11_BuiltTableIsThePivotOfTheMatchedFiles ==
    LET built    == df_from_file_system(root)
        df       == built.val
        complete == { p \in root.glob : p.matched }
    IN  built.err = "" =>
          /\ Len(df.index) = Cardinality(Range(df.index))
          /\ Len(df.columns) = Cardinality(Range(df.columns))
          /\ Range(df.index) \subseteq RowKeys
          /\ Range(df.columns) \subseteq ColumnKeys
          /\ \A p \in complete :
                /\ IndexOf(p) \in Range(df.index)
                /\ ColumnOf(p) \in Range(df.columns)
                /\ df.at[<<IndexOf(p), ColumnOf(p)>>] = Cell(p)
          /\ \A r \in Range(df.index) : \E p \in complete : IndexOf(p) = r
          /\ \A c \in Range(df.columns) : \E p \in complete : ColumnOf(p) = c
          /\ \A r \in Range(df.index), c \in Range(df.columns) :
                (~ \E p \in complete : IndexOf(p) = r /\ ColumnOf(p) = c)
                    => ~notnull(df.at[<<r, c>>])

\* A Register built from two files of different rows and columns.
C11_Witness ==
    /\ register.err = ""
    /\ register.val = df_from_file_system(root).val
    /\ Len(register.val.index) = 2
    /\ Len(register.val.columns) = 2
    /\ \E k \in DOMAIN register.val.at : register.val.at[k] = PyNone

\* The identifier lists passed to types and to sequences: the lists of one
\* or two identifiers that set at most their first field, to a section or
\* a road of the data set.
TypeLists ==
    LET ids == ({NONE} \cup Sections) \X {NONE} \X {NONE}
    IN  { <<a>> : a \in ids } \cup (ids \X ids)

SequenceLists ==
    LET ids == ({NONE} \cup Roads) \X {NONE} \X {NONE}
    IN  { <<a>> : a \in ids } \cup (ids \X ids)

\* The tables of the Registers one call of types derives from a table.
TypeSelections(df) ==
    { r.val : r \in { o \in { types(df, ids) : ids \in TypeLists } :
                       o.err = "" } }

\* The tables of the Registers one call of sequences derives from a table.
SequenceSelections(df) ==
    { r.val : r \in { o \in { sequences(df, ids) : ids \in SequenceLists } :
                       o.err = "" } }

\* A table and the tables of the Registers one filter derives from it.
Selections(df) == {df} \cup TypeSelections(df) \cup SequenceSelections(df)

\* A key has the value of every set field of an identifier.
Matches(key, id) == \A i \in DOMAIN id : id[i] = NONE \/ id[i] = key[i]

\* type_slice(t) returns the columns matching t, in table order, with every
\* row and the cells of the table; the whole table for an identifier
\* without a set field and for None.
TypeSliceIsExact(df, t) ==
    LET s == type_slice(df, t)
    IN  /\ s.err = ""
        /\ s.val.index = df.index
        /\ s.val.columns = SelectSeq(df.columns, LAMBDA c : Matches(c, t))
        /\ \A k \in DOMAIN s.val.at : s.val.at[k] = df.at[k]
        /\ (\A i \in DOMAIN t : t[i] = NONE) => s.val = df

\* C12: on every Register, type_slice(t) returns all rows and exactly the
\* columns whose section, subsection and file_type equal the set fields of
\* t, and the whole table for a fully unset t and for None.
C12_TypeSliceSelectsMatchingColumns ==
    register.err = "" =>
        \A df \in Selections(register.val), t \in TypeIds \cup {SelectAll} :
            TypeSliceIsExact(df, t)

\* The columns type_slice selects for each identifier of a list, one
\* selection after the other.
RECURSIVE SelectedColumns(_, _, _)
SelectedColumns(df, type_ids, n) ==
    IF n = 0 THEN <<>>
    ELSE SelectedColumns(df, type_ids, n - 1)
           \o SelectSeq(df.columns, LAMBDA c : Matches(c, type_ids[n]))

\* C13 as stated: types(type_ids) keeps every row of the source table and
\* every selected column that has a non-null cell, with all its cells, and
\* drops the selected columns that are entirely null.
C13_TypesKeepsRowsAndDropsEmptyColumns ==
    register.err = "" =>
        \A ids \in TypeLists :
            LET df       == register.val
                result   == types(df, ids)
                selected == SelectedColumns(df, ids, Len(ids))
            IN  /\ result.err = ""
                /\ result.val.index = df.index
                /\ Range(result.val.columns) =
                     { c \in Range(selected) :
                         \E r \in Range(df.index) : notnull(df.at[<<r, c>>]) }
                /\ \A k \in DOMAIN result.val.at : result.val.at[k] = df.at[k]

\* C13 amended: when types(type_ids) returns, its table has the columns
\* type_slice selects for each identifier, in list order, and the rows of
\* the source table that have no null cell in these columns, in table
\* order, with the cells of the source table.
C13_TypesKeepsColumnsAndDropsRowsWithNull ==
    register.err = "" =>
        \A df \in {register.val} \cup SequenceSelections(register.val),
           ids \in TypeLists :
            LET result   == types(df, ids)
                selected == SelectedColumns(df, ids, Len(ids))
            IN  result.err = "" =>
                  /\ result.val.columns = selected
                  /\ result.val.index =
                       SelectSeq(df.index,
                                 LAMBDA r : \A c \in Range(selected) :
                                                notnull(df.at[<<r, c>>]))
                  /\ \A k \in DOMAIN result.val.at :
                         result.val.at[k] = df.at[k]

\* types drops a row of a built table and keeps two columns.
C13_Witness ==
    /\ register.err = ""
    /\ \E ids \in TypeLists :
           LET result == types(register.val, ids)
           IN  /\ result.err = ""
               /\ Len(result.val.columns) = 2
               /\ Len(result.val.index) < Len(register.val.index)

\* The number of positions of a key in an index.
Count(keys, key) == Cardinality({ i \in DOMAIN keys : keys[i] = key })

\* C14 as stated: a column selected by several identifiers of the list
\* passed to types appears once in the resulting table.
C14_OverlappingColumnAppearsOnce ==
    register.err = "" =>
        \A ids \in TypeLists :
            LET result == types(register.val, ids)
            IN  result.err = "" =>
                  \A c \in Range(result.val.columns) :
                      Count(result.val.columns, c) = 1

\* C14 amended: when types(type_ids) returns, a column of the source table
\* appears in the result once for every identifier of the list that
\* selects it.
C14_OverlappingColumnAppearsOncePerIdentifier ==
    register.err = "" =>
        \A df \in {register.val} \cup TypeSelections(register.val),
           ids \in TypeLists :
            LET result == types(df, ids)
            IN  result.err = "" =>
                  \A c \in ColumnKeys :
                      Count(result.val.columns, c) =
                        Count(df.columns, c)
                          * Cardinality({ i \in DOMAIN ids : Matches(c, ids[i]) })

\* types with two identifiers that select the same column returns it twice.
C14_Witness ==
    /\ register.err = ""
    /\ \E ids \in TypeLists :
           LET result == types(register.val, ids)
           IN  /\ result.err = ""
               /\ Len(ids) = 2
               /\ \E c \in Range(result.val.columns) :
                      /\ Matches(c, ids[1])
                      /\ Matches(c, ids[2])
                      /\ Count(result.val.columns, c) = 2

\* No key of an index matches an identifier.
MatchesNothing(keys, id) == \A i \in DOMAIN keys : ~Matches(keys[i], id)

\* C15: on every Register, sequence_slice with an identifier that matches
\* no row, and sequences and types with identifiers that match nothing,
\* return a table without rows or without columns and raise nothing.
C15_NoMatchGivesEmptyTableWithoutError ==
    register.err = "" =>
        \A df \in Selections(register.val) :
            /\ \A s \in SequenceIds :
                   MatchesNothing(df.index, s) =>
                       /\ sequence_slice(df, s).err = ""
                       /\ sequence_slice(df, s).val.index = <<>>
                       /\ sequences(df, <<s>>).err = ""
                       /\ sequences(df, <<s>>).val.index = <<>>
                       /\ sequences(df, <<s, s>>).err = ""
                       /\ sequences(df, <<s, s>>).val.index = <<>>
            /\ \A t \in TypeIds :
                   MatchesNothing(df.columns, t) =>
                       /\ types(df, <<t>>).err = ""
                       /\ types(df, <<t>>).val.columns = <<>>
                       /\ types(df, <<t, t>>).err = ""
                       /\ types(df, <<t, t>>).val.columns = <<>>

\* The timestamps passed to at_time: the dates of the data set and a date
\* no file has.
Timestamps == 1..(MaxDate + 1)

\* at_time(t) returns the rows of date t, in table order, with every column
\* and the cells of the table.
AtTimeIsExact(df, t) ==
    LET result == at_time(df, t)
    IN  /\ result.err = ""
        /\ result.val.index = SelectSeq(df.index, LAMBDA r : r[4] = t)
        /\ result.val.columns = df.columns
        /\ \A k \in DOMAIN result.val.at : result.val.at[k] = df.at[k]

DuplicateFree(list) == Cardinality(Range(list)) = Len(list)

\* C17: on a constructed Register and on every Register types or sequences
\* derives from it, type_list is the duplicate-free list of the column keys
\* of the table and sequence_list the duplicate-free list of the (road,
\* record, camera) of its rows, every entry with all three fields set.
C17_ListsAreTheKeysPresentWithoutDuplicates ==
    register.err = "" =>
        \A df \in Selections(register.val) :
            /\ DuplicateFree(type_list(df))
            /\ Range(type_list(df)) = Range(df.columns)
            /\ \A t \in Range(type_list(df)) :
                   Len(t) = 3 /\ \A i \in 1..3 : t[i] # NONE
            /\ DuplicateFree(sequence_list(df))
            /\ Range(sequence_list(df)) =
                 { <<r[1], r[2], r[3]>> : r \in Range(df.index) }
            /\ \A q \in Range(sequence_list(df)) :
                   Len(q) = 3 /\ \A i \in 1..3 : q[i] # NONE

\* Two rows of one sequence are listed once, and so is a column that types
\* returned twice.
C17_Witness ==
    /\ register.err = ""
    /\ Len(sequence_list(register.val)) < Len(register.val.index)
    /\ \E df \in TypeSelections(register.val) :
           /\ df.index # <<>>
           /\ Len(type_list(df)) < Len(df.columns)

\* The (row key, column key) -> value entries of a table, every null cell
\* as one empty value.
Entries(df) ==
    { << k, IF notnull(df.at[k]) THEN df.at[k] ELSE PyNone >> :
        k \in Range(df.index) \X Range(df.columns) }

\* C18: the table read from the cache file __init__ wrote has the entries of
\* the table written: the same row keys and column keys, the same paths and
\* the same null cells.
C18_CacheRoundTripKeepsEntries ==
    cache.state = "csv" =>
        LET original == df_from_file_system(root).val
            loaded   == df_from_cache(cache)
        IN  /\ cache.csv = to_csv(original)
            /\ loaded.err = ""
            /\ Range(loaded.val.index) = Range(original.index)
            /\ Range(loaded.val.columns) = Range(original.columns)
            /\ Entries(loaded.val) = Entries(original)

\* A Register loaded from the cache file of a table with a null cell.
C18_Witness ==
    /\ cache.state = "csv"
    /\ register = df_from_cache(cache)
    /\ \E k \in DOMAIN register.val.at : register.val.at[k] = NaN
    /\ \E k \in DOMAIN register.val.at : notnull(register.val.at[k])

\* C19: Register(root, use_cache_index=True) with a missing or corrupt cache
\* file never raises because of the cache: it builds the table from the
\* scan and binds a Register holding it.
C19_CacheFailureFallsBackToScan ==
    (cache.state # "csv" /\ df_from_file_system(root).err = "") =>
        /\ init(root, cache, TRUE).register.err = ""
        /\ init(root, cache, TRUE).register.val = df_from_file_system(root).val

C21_MissingRootFailsNamingThePath ==
    ~root.exists =>
        \A use_cache_index \in BOOLEAN :
            (~use_cache_index
                \/ df_from_cache(cache).err = "FileNotFoundError") =>
                /\ init(root, cache, use_cache_index).register =
                     RaisedWith("FileNotFoundError",
                                <<"Scene Parsing path not found: ", root>>)
                /\ init(root, cache, use_cache_index).cache = cache

\* A construction on a missing root has raised next to an existing cache
\* directory.
C21_Witness ==
    /\ ~root.exists
    /\ cache.state = "no file"
    /\ register.err = "FileNotFoundError"
    /\ register.msg[2] = root

(***************************************************************************)
(* Properties of the scanners.                                             *)
(***************************************************************************)

\* The number of rows of a scanner's table holding the path p.
PathCount(rows, p) == Cardinality({ i \in DOMAIN rows : rows[i].path = p })

C23_LaneSegmentationKeepsExactlyTheMatchingPaths ==
    (scanned.scanner = "lane_segmentation" /\ ~scanned.none) =>
        \A p \in ScanFiles :
            PathCount(scanned.rows, p) =
                IF p \in root.glob /\ p \in LS_FILE_REGEX THEN 1 ELSE 0

(***************************************************************************)
(* Properties of the construction of a Register.                           *)
(***************************************************************************)

\* C24: Register(root, use_cache_index=True) with a readable cache file
\* binds the table read from it, calls neither the scan nor the save, and
\* leaves the file as it was, whatever root holds; the scan is called only
\* with cache use disabled or after the cache load raised, and the save
\* only after a scan that returned.
C24_ReadableCacheIsLoadedWithoutScan ==
    \A use_cache_index \in BOOLEAN :
        LET cached == df_from_cache(cache)
            made   == init(root, cache, use_cache_index)
        IN  /\ (use_cache_index /\ cached.err = "") =>
                  /\ made.register = cached
                  /\ made.cache = cache
                  /\ made.calls = <<"_df_from_cache">>
            /\ "_df_from_file_system" \in Range(made.calls) =>
                  ~use_cache_index \/ cached.err # ""
            /\ "_df_to_cache" \in Range(made.calls) =>
                  /\ "_df_from_file_system" \in Range(made.calls)
                  /\ df_from_file_system(root).err = ""

\* A Register was loaded from the cache file of an earlier run, whose
\* table is not the one a scan of root builds.
C24_Witness ==
    /\ cache = StaleCache
    /\ register = df_from_cache(cache)
    /\ register.err = ""
    /\ Range(register.val.index) # Range(df_from_file_system(root).val.index)

\* A record that holds all of road, record, camera, date, section,
\* subsection and file_type.
Complete(p) ==
    /\ p.road # <<>> /\ p.record # <<>> /\ p.camera # <<>> /\ p.date # <<>>
    /\ p.section # 0 /\ p.subsection # 0 /\ p.file_type # 0

\* C25: in the table a scan builds, a file whose record misses a field
\* gives no row, no column and no cell, and every file with a complete
\* record has its cell.
C25_IncompleteRecordsAreDropped ==
    LET built == df_from_file_system(root)
        df    == built.val
    IN  built.err = "" =>
          /\ \A p \in root.glob :
                ~Complete(p) =>
                    /\ IndexOf(p) \notin Range(df.index)
                    /\ ColumnOf(p) \notin Range(df.columns)
                    /\ \A k \in DOMAIN df.at : df.at[k] # Cell(p)
          /\ \A p \in root.glob :
                Complete(p) =>
                    /\ <<IndexOf(p), ColumnOf(p)>> \in DOMAIN df.at
                    /\ df.at[<<IndexOf(p), ColumnOf(p)>>] = Cell(p)
          /\ Cardinality(DOMAIN df.at) = Len(df.index) * Len(df.columns)
          /\ \A r \in Range(df.index) :
                \E p \in root.glob : Complete(p) /\ IndexOf(p) = r
          /\ \A c \in Range(df.columns) :
                \E p \in root.glob : Complete(p) /\ ColumnOf(p) = c

\* A Register was built from a directory holding a frame and a file with
\* no record: its table has the one cell of the frame.
C25_Witness ==
    /\ register.err = ""
    /\ register.val = df_from_file_system(root).val
    /\ \E p \in root.glob : ~Complete(p)
    /\ Cardinality(DOMAIN register.val.at) = 1

(***************************************************************************)
(* Properties of the Registers derived by types and sequences.             *)
(***************************************************************************)

\* C26: the columns of a Register built from a scan are in increasing
\* order of (section, subsection, file_type), and so are the columns of
\* every Register derived from it by types and sequences, for every order
\* of the identifiers passed.
C26_ColumnsStaySorted ==
    register.err = "" =>
        \A df \in Selections(register.val) : is_lexsorted(df.columns, 3)

(***************************************************************************)
(* Properties of the objects of identifiers.                               *)
(***************************************************************************)

\* C27: after any sequence of constructions and unions, every identifier
\* built holds the tree it held when it was built (components,
\* is_composite and is_definite are computed from that tree alone), and no
\* dict or set object belongs to two identifiers: a union shares nothing
\* with its operands.
C27_UnionSharesNothingWithItsOperands ==
    /\ \A i \in DOMAIN identifiers :
          TreeAt(heap, identifiers[i].rank_1_map) = identifiers[i].built
    /\ \A i, j \in DOMAIN identifiers :
          i # j =>
              ObjectsAt(heap, identifiers[i].rank_1_map)
                  \cap ObjectsAt(heap, identifiers[j].rank_1_map) = {}

\* Two unions have been made, the second with the result of the first as
\* an operand on a shared rank1 and rank2 key.
C27_Witness ==
    /\ Len(identifiers) = 3
    /\ identifiers[2].built = Or(identifiers[1].built, identifiers[1].built)
    /\ identifiers[3].built = Or(identifiers[2].built, identifiers[1].built)

(***************************************************************************)
(* Properties of _from_components on more than two identifiers.            *)
(***************************************************************************)

\* C28: _from_components(a, b, c) is the identifier (a | b) | c: a rank1 or
\* rank2 key that only some of the three carry has the subtrees of all its
\* carriers merged, so no component of a, b or c is lost.
C28_NaryUnionIsTheFoldOfBinaryUnion ==
    \A c \in Fundamentals :
        /\ from_components(<<x, y, c>>) = Or(Or(x, y), c)
        /\ Leaves(from_components(<<x, y, c>>)) =
               Leaves(x) \cup Leaves(y) \cup Leaves(c)

(***************************************************************************)
(* Properties of chained filters.                                          *)
(***************************************************************************)

\* R.sequences(sequence_ids).types(type_ids)
SequencesThenTypes(df, sequence_ids, type_ids) ==
    LET rows == sequences(df, sequence_ids)
    IN  IF rows.err # "" THEN rows ELSE types(rows.val, type_ids)

\* R.types(type_ids).sequences(sequence_ids)
TypesThenSequences(df, sequence_ids, type_ids) ==
    LET cols == types(df, type_ids)
    IN  IF cols.err # "" THEN cols ELSE sequences(cols.val, sequence_ids)

\* The lists passed to a chain of the two filters: one sequence identifier
\* with one or two type identifiers, or one or two sequence identifiers
\* with Type().
FilterLists ==
    { p \in SequenceLists \X TypeLists :
        Len(p[1]) = 1 \/ p[2] = << <<NONE, NONE, NONE>> >> }

\* C29 as stated: for every constructed Register R and lists S and T,
\* R.sequences(S).types(T) and R.types(T).sequences(S) return tables with
\* the same entries.
C29_RowAndColumnFiltersCommute ==
    register.err = "" =>
        \A <<S, T>> \in FilterLists :
            LET st == SequencesThenTypes(register.val, S, T)
                ts == TypesThenSequences(register.val, S, T)
            IN  /\ st.err = "" /\ ts.err = ""
                /\ Entries(st.val) = Entries(ts.val)

\* A row of a table has no null cell.
FullRow(df, row) == \A c \in Range(df.columns) : notnull(df.at[<<row, c>>])

\* C29 amended: both orders return, and the entries of
\* R.sequences(S).types(T) are the entries of R.types(T).sequences(S) in
\* the rows that have no null cell in any column of R; the two tables have
\* the same entries when R has no null cell.
C29_SequencesFirstKeepsOnlyFullRows ==
    register.err = "" =>
        \A <<S, T>> \in FilterLists :
            LET st == SequencesThenTypes(register.val, S, T)
                ts == TypesThenSequences(register.val, S, T)
            IN  /\ st.err = "" /\ ts.err = ""
                /\ Entries(st.val) =
                     { e \in Entries(ts.val) :
                         FullRow(register.val, e[1][1]) }
                /\ (\A r \in Range(register.val.index) :
                        FullRow(register.val, r)) =>
                       Entries(st.val) = Entries(ts.val)

\* On a table of two rows and two columns with null cells, sequences
\* first leaves no entry and types first leaves the entry of the full row
\* of the column selected.
C29_Witness ==
    /\ register.err = ""
    /\ Len(register.val.index) = 2
    /\ Len(register.val.columns) = 2
    /\ \E T \in TypeLists :
          LET S  == << <<NONE, NONE, NONE>> >>
              st == SequencesThenTypes(register.val, S, T)
              ts == TypesThenSequences(register.val, S, T)
          IN  /\ st.err = "" /\ ts.err = ""
              /\ Entries(st.val) = {}
              /\ Cardinality(Entries(ts.val)) = 1

\* A table without a null cell.
NoEmptyCell(df) ==
    \A k \in Range(df.index) \X Range(df.columns) : notnull(df.at[k])

\* A table returned holds no null cell and no row of the source table that
\* has a null cell in a column kept.
DropsRowsWithEmptyCell(source, returned) ==
    /\ NoEmptyCell(returned)
    /\ \A r \in Range(source.index) :
          (\E c \in Range(returned.columns) : ~notnull(source.at[<<r, c>>])) =>
              r \notin Range(returned.index)

\* C30: the table of every Register that types or sequences returns has a
\* path in every cell, and holds no row of the source table that has an
\* empty cell in a column kept.
C30_FilteredTablesHaveNoEmptyCell ==
    register.err = "" =>
        /\ \A T \in TypeLists :
              LET returned == types(register.val, T)
              IN  returned.err = "" =>
                      DropsRowsWithEmptyCell(register.val, returned.val)
        /\ \A S \in SequenceLists :
              LET returned == sequences(register.val, S)
              IN  returned.err = "" =>
                      DropsRowsWithEmptyCell(register.val, returned.val)

\* From a table of two rows with an empty cell each, types keeps the one
\* row that is full in the column selected and sequences keeps no row.
C30_Witness ==
    /\ register.err = ""
    /\ Len(register.val.index) = 2
    /\ ~NoEmptyCell(register.val)
    /\ \E T \in TypeLists :
          /\ types(register.val, T).err = ""
          /\ Len(types(register.val, T).val.index) = 1
          /\ Len(types(register.val, T).val.columns) = 1
    /\ sequences(register.val, << <<NONE, NONE, NONE>> >>).val.index = <<>>

====
